---- MODULE Spec2Model ----
(***************************************************************************)
(* NaiveKMeans (src/mlpack/methods/kmeans/naive_kmeans_impl.hpp): one      *)
(* Lloyd iteration, parallelised with OpenMP.                              *)
(*                                                                         *)
(* Indices are 0-based as in the source: a matrix is a function from its   *)
(* column indices 0..n_cols-1 to columns, a column is a tuple of its rows. *)
(* Arithmetic is exact: the inputs are integer-valued doubles, the sums    *)
(* are integers, and a normalised centroid entry is a fraction <<n, d>> in *)
(* lowest terms with d > 0.                                                *)
(***************************************************************************)
EXTENDS Integers, Sequences, FiniteSets, TLC

\* ------------------------------------------------------------------ bounds

\* omp_get_max_threads() reports a value in 1..MaxThreads, and the dataset
\* has up to MaxThreads segments of minVectorsPerThread points.
MaxThreads == 2
\* Iterate is called at most MaxCalls times on one NaiveKMeans object.
MaxCalls == 2

\* ------------------------------------------------------- program constants

\* const size_t minVectorsPerThread = 100;
minVectorsPerThread == 100

\* std::numeric_limits<double>::max(): above every distance of the model.
DoubleMax == 1000000000

\* ------------------------------------------------------------- arithmetic

Abs(x) == IF x < 0 THEN -x ELSE x

Min(a, b) == IF a < b THEN a ELSE b

Max(a, b) == IF a > b THEN a ELSE b

RECURSIVE GCD(_, _)
GCD(a, b) == IF b = 0 THEN a ELSE GCD(b, a % b)

\* The double n/d, d > 0, in lowest terms.
Frac(n, d) == LET g == GCD(Abs(n), d) IN <<n \div g, d \div g>>

\* p + q over the least common denominator.
FracAdd(p, q) ==
  LET g == GCD(p[2], q[2])
  IN  Frac(p[1] * (q[2] \div g) + q[1] * (p[2] \div g), (p[2] \div g) * q[2])

FracSub(p, q) == FracAdd(p, <<-q[1], q[2]>>)

FracMul(p, q) == Frac(p[1] * q[1], p[2] * q[2])

\* A double divided by a positive count.
FracDivInt(p, c) == Frac(p[1], p[2] * c)

RECURSIVE SumTo(_, _)
\* f[1] + ... + f[n] of integers.
SumTo(f, n) == IF n = 0 THEN 0 ELSE SumTo(f, n - 1) + f[n]

RECURSIVE FracSumTo(_, _)
\* f[1] + ... + f[n] of fractions.
FracSumTo(f, n) == IF n = 0 THEN <<0, 1>> ELSE FracAdd(FracSumTo(f, n - 1), f[n])

\* arma::dot of two integer columns.
Dot(u, v) == SumTo([r \in 1..Len(u) |-> u[r] * v[r]], Len(u))

\* column += column, integer entries.
VecAdd(u, v) == [r \in 1..Len(u) |-> u[r] + v[r]]

\* arma::zeros: a matrix of the given shape, integer entries.
ZeroMat(rows, cols) == [j \in 0..(cols - 1) |-> [r \in 1..rows |-> 0]]

\* arma::zeros: a vector of counts.
ZeroVec(n) == [j \in 0..(n - 1) |-> 0]

\* An integer column as a column of doubles.
ToFrac(col) == [r \in 1..Len(col) |-> <<col[r], 1>>]

\* ------------------------------------------------------------------ inputs

\* Each input family gives the points a dataset repeats (point i is
\* pat[i mod Len(pat)]) and the columns its centroid matrices are built from.
Families ==
  { [pat  |-> << <<0, 0>>, <<0, 1>>, <<5, 5>>, <<5, 6>> >>,
     cols |-> { <<0, 0>>, <<5, 5>> }],
    [pat  |-> << <<0>>, <<1>>, <<2>>, <<1>> >>,
     cols |-> { <<1>>, <<3>> }] }

\* The numbers of points: none, one repetition of the pattern, one point
\* short of a segment, whole segments, and a segment for each of MaxThreads
\* threads plus a remainder.
PointCounts(fam) ==
  {0, Len(fam.pat), minVectorsPerThread - 1}
    \cup { k * minVectorsPerThread : k \in 1..(MaxThreads - 1) }
    \cup { MaxThreads * minVectorsPerThread + MaxThreads - 1 }

\* The dataset of n points of a family (arma::mat, n_rows x n_cols).
MakeDataset(fam, n) ==
  [n_rows |-> Len(fam.pat[1]),
   n_cols |-> n,
   col    |-> [i \in 0..(n - 1) |-> fam.pat[(i % Len(fam.pat)) + 1]]]

\* The centroid matrices with k columns drawn from a set of columns.
CentroidMats(cols, k) == [0..(k - 1) -> cols]

\* Every centroid matrix a caller passes for a family: from no column up to
\* as many columns as the family has (a column may repeat).
CentroidChoices(cols) ==
  UNION { CentroidMats(cols, k) : k \in 0..Cardinality(cols) }

\* Number of columns of a matrix or entries of a vector (n_cols, n_elem).
NCols(m) == Cardinality(DOMAIN m)

\* ------------------------------------------------------------------- state

VARIABLES
  family,                \* the input family the caller draws centroids from
  maxThreads,            \* what omp_get_max_threads() reports
  dataset,               \* const MatType& dataset
  distanceCalculations,  \* size_t distanceCalculations
  centroids,             \* const arma::mat& centroids (argument of the call)
  newCentroids,          \* arma::mat& newCentroids (the caller's buffer)
  counts,                \* arma::Col<size_t>& counts (the caller's buffer)
  centroidNorms,         \* arma::vec centroidNorms
  effectiveThreads,      \* const size_t effectiveThreads
  nominalSegmentSize,    \* const size_t nominalSegmentSize
  teamSize,              \* omp_get_num_threads() inside the parallel region
  pc,                    \* where the calling thread is
  tpc,                   \* where each thread of the team is
  localCentroids,        \* arma::mat localCentroids, one per thread
  localCounts,           \* arma::Col<size_t> localCounts, one per thread
  cNorm,                 \* the returned double, see Norm2Squared
  assignments,           \* history: closestCluster of each point processed
  faults,                \* history: undefined operations of the current call
  combines,              \* history: times each thread ran the combine step
  calls,                 \* history: number of Iterate calls that returned
  expectedCalculations   \* history: sum of clusters * points over those calls

vars == <<family, maxThreads, dataset, distanceCalculations, centroids,
          newCentroids, counts, centroidNorms, effectiveThreads,
          nominalSegmentSize, teamSize, pc, tpc, localCentroids, localCounts,
          cNorm, assignments, faults, combines, calls, expectedCalculations>>

\* const size_t dims = dataset.n_rows;
dims == dataset.n_rows

\* const size_t points = dataset.n_cols;
points == dataset.n_cols

\* const size_t clusters = centroids.n_cols;
clusters == NCols(centroids)

\* The threads of the team running the parallel region.
Team == 0..(teamSize - 1)

\* --------------------------------------------------------- nearest centroid

\* Dist with the cross term counted once.
Dist_SingleCross(dataPoint, dataNorm, j) ==
  dataNorm + centroidNorms[j] - Dot(dataPoint, centroids[j])

\* double dist = dataNorm + centroidNorms(j) - 2 * dotProduct;
Dist(dataPoint, dataNorm, j) ==
  dataNorm + centroidNorms[j] - 2 * Dot(dataPoint, centroids[j])

\* Closer with <= for <.
Closer_OrEqual(dist, minDistance) == dist <= minDistance

\* if (dist < minDistance)
Closer(dist, minDistance) == dist < minDistance

RECURSIVE FindClosest(_, _, _, _, _)
\* for (size_t j = 0; j < clusters; ++j) { ... }: the loop from index j on,
\* given the minimum found so far.
FindClosest(dataPoint, dataNorm, j, minDistance, closestCluster) ==
  IF j >= clusters
    THEN closestCluster
    ELSE LET dist == Dist(dataPoint, dataNorm, j)
         IN  IF Closer(dist, minDistance)
               THEN FindClosest(dataPoint, dataNorm, j + 1, dist, j)
               ELSE FindClosest(dataPoint, dataNorm, j + 1, minDistance,
                                closestCluster)

\* The closestCluster the loop body finds for point i.
ClosestCluster(i) ==
  LET dataPoint == dataset.col[i]
      dataNorm  == Dot(dataPoint, dataPoint)
  IN  FindClosest(dataPoint, dataNorm, 0, DoubleMax, clusters)

\* ------------------------------------------------------------ partitioning

\* const size_t numThreads = static_cast<size_t>(std::max(1, omp_get_max_threads()));
numThreads == Max(1, maxThreads)

\* std::min(numThreads, points / minVectorsPerThread)
EffectiveThreads(n) == Min(numThreads, n \div minVectorsPerThread)

\* What points / effectiveThreads evaluates to when effectiveThreads is 0 and
\* the division does not trap (AArch64's udiv yields 0; x86's div traps).
DivByZeroQuotients == {0}

\* const size_t segmentStart = threadId * nominalSegmentSize;
SegmentStart(threadId) == threadId * nominalSegmentSize

\* SegmentEnd without the remainder for the last thread.
SegmentEnd_NoRemainder(threadId) == (threadId + 1) * nominalSegmentSize

\* (threadId == effectiveThreads - 1) ? points : (threadId + 1) * nominalSegmentSize
\* In size_t arithmetic 0 - 1 is the largest value, which no thread id equals;
\* neither does any thread id equal the integer -1.
SegmentEnd(threadId) ==
  IF threadId = effectiveThreads - 1
    THEN points
    ELSE (threadId + 1) * nominalSegmentSize

\* The team sizes the runtime may grant to num_threads(effectiveThreads): at
\* most the number requested; a request of 0 is treated as no request.
TeamSizes ==
  IF effectiveThreads >= 1 THEN 1..effectiveThreads ELSE 1..numThreads

\* ------------------------------------------------------- local accumulation

\* localCentroids.col(closestCluster) += dataPoint;
AddPoint(lc, cl, dataPoint) == [lc EXCEPT ![cl] = VecAdd(@, dataPoint)]

\* localCounts(closestCluster)++;
CountPoint(ln, cl) == [ln EXCEPT ![cl] = @ + 1]

\* The body of the loop over the points, for point i. When closestCluster is
\* no column of localCentroids the two writes fall outside the accumulators
\* (oob) and leave them as they are.
AccumulatePoint(i, acc) ==
  LET cl == ClosestCluster(i)
  IN  IF cl >= clusters
        THEN [acc EXCEPT !.oob = TRUE]
        ELSE [lc  |-> AddPoint(acc.lc, cl, dataset.col[i]),
              ln  |-> CountPoint(acc.ln, cl),
              oob |-> acc.oob]

RECURSIVE AccumulateRange(_, _, _)
\* for (size_t i = segmentStart; i < segmentEnd; ++i) { ... }: the points
\* lo..hi-1 in index order (the first half of the range, then the second).
AccumulateRange(lo, hi, acc) ==
  IF lo >= hi
    THEN acc
    ELSE IF hi = lo + 1
      THEN AccumulatePoint(lo, acc)
      ELSE LET mid   == lo + ((hi - lo) \div 2)
               first == AccumulateRange(lo, mid, acc)
           IN  IF first.oob \in BOOLEAN
                 THEN AccumulateRange(mid, hi, first)
                 ELSE first

\* ------------------------------------------------------------------- merge

\* ZeroFracMat that only resizes: a buffer that already has the shape keeps
\* its contents.
ZeroFracMat_SetSize(rows, cols) ==
  IF /\ DOMAIN newCentroids = 0..(cols - 1)
     /\ \A j \in DOMAIN newCentroids : Len(newCentroids[j]) = rows
    THEN newCentroids
    ELSE [j \in 0..(cols - 1) |-> [r \in 1..rows |-> <<0, 1>>]]

\* newCentroids.zeros(dims, clusters): a matrix of the given shape, double
\* entries, whatever the buffer held.
ZeroFracMat(rows, cols) == [j \in 0..(cols - 1) |-> [r \in 1..rows |-> <<0, 1>>]]

\* newCentroids += localCentroids;
MergeCentroidsInto(shared, lc) ==
  [j \in DOMAIN shared |->
     [r \in 1..Len(shared[j]) |-> FracAdd(shared[j][r], <<lc[j][r], 1>>)]]

\* counts += localCounts;
MergeCountsInto(shared, ln) == [j \in DOMAIN shared |-> shared[j] + ln[j]]

\* ----------------------------------------------------- normalise and shift

\* NormalizeCol dividing by one more than the count.
NormalizeCol_OffByOne(col, count) ==
  IF count > 0
    THEN [r \in 1..Len(col) |-> FracDivInt(col[r], count + 1)]
    ELSE col

\* if (counts(j) > 0) newCentroids.col(j) /= counts(j);
NormalizeCol(col, count) ==
  IF count > 0
    THEN [r \in 1..Len(col) |-> FracDivInt(col[r], count)]
    ELSE col

\* for (size_t j = 0; j < clusters; ++j) { ... }
Normalize(nc, cnt) == [j \in DOMAIN nc |-> NormalizeCol(nc[j], cnt[j])]

\* The square of arma::norm(centroids.col(j) - newCentroids.col(j), 2).
Norm2Squared(old, new) ==
  FracSumTo([r \in 1..Len(old) |->
               FracMul(FracSub(<<old[r], 1>>, new[r]),
                       FracSub(<<old[r], 1>>, new[r]))], Len(old))

\* cNorm += arma::norm(...) over the clusters. The double returned is the sum
\* of the square roots of the entries; it is kept as the tuple of the squares.
Distortion(old, new) == [j \in DOMAIN old |-> Norm2Squared(old[j], new[j])]

\* Calculations without the factor clusters.
Calculations_PointsOnly(k, n) == n

\* distanceCalculations += clusters * points;
Calculations(k, n) == k * n

\* --------------------------------------------------------- synchronisation

\* StoreLocal with one accumulator shared by the whole team.
StoreLocal_Shared(locals, threadId, value) == [id \in DOMAIN locals |-> value]

\* localCentroids and localCounts are declared inside the parallel region
\* (lines 61-62): a thread's writes go to its own copy.
StoreLocal(locals, threadId, value) == [locals EXCEPT ![threadId] = value]

\* ReachedCritical for a thread that is still in its loop.
ReachedCritical_Early(threadId) == tpc[threadId] \in {"accumulate", "waiting"}

\* The thread has left the loop over its segment and stands at line 99.
ReachedCritical(threadId) == tpc[threadId] = "waiting"

\* CriticalFree without the critical construct.
CriticalFree_Unguarded == TRUE

\* #pragma omp critical: no thread of the team is inside the section.
CriticalFree == \A other \in Team : tpc[other] # "critical"

\* Joined as soon as one thread is through.
Joined_AnyDone == \E id \in Team : tpc[id] = "done"

\* The implicit barrier at the end of the parallel region (line 104): every
\* thread of the team has left the critical section.
Joined == \A id \in Team : tpc[id] = "done"

\* -------------------------------------------------------------------- Init

\* The state after NaiveKMeans(dataset, distance): distanceCalculations(0).
\* The caller's output buffers hold anything: empty, or a stale result.
Init ==
  /\ family \in Families
  /\ maxThreads \in 1..MaxThreads
  /\ dataset \in { MakeDataset(family, n) : n \in PointCounts(family) }
  /\ distanceCalculations = 0
  /\ centroids = <<>>
  /\ \E stale \in {0, 1} :
       /\ newCentroids = [j \in 0..(stale - 1) |-> [r \in 1..stale |-> <<7, 1>>]]
       /\ counts = [j \in 0..(stale - 1) |-> 7]
  /\ centroidNorms = <<>>
  /\ effectiveThreads = 0
  /\ nominalSegmentSize = 0
  /\ teamSize = 0
  /\ pc = "idle"
  /\ tpc = <<>>
  /\ localCentroids = <<>>
  /\ localCounts = <<>>
  /\ cNorm = <<>>
  /\ assignments = <<>>
  /\ faults = {}
  /\ combines = <<>>
  /\ calls = 0
  /\ expectedCalculations = 0

\* ----------------------------------------------------------------- actions

\* Iterate, lines 38-57: the outputs are zeroed, the centroid norms cached
\* and the partition computed. points / effectiveThreads with
\* effectiveThreads = 0 is undefined: the call traps or goes on with some
\* quotient. Nothing of an earlier call's frame is left.
IterateBegin(c) ==
  /\ pc \in {"idle", "returned"}
  /\ calls < MaxCalls
  /\ centroids' = c
  /\ newCentroids' = ZeroFracMat(dims, NCols(c))
  /\ counts' = ZeroVec(NCols(c))
  /\ centroidNorms' = [j \in DOMAIN c |-> Dot(c[j], c[j])]
  /\ effectiveThreads' = EffectiveThreads(points)
  /\ IF effectiveThreads' = 0
       THEN \/ /\ pc' = "crashed"
               /\ UNCHANGED nominalSegmentSize
            \/ /\ pc' = "partitioned"
               /\ nominalSegmentSize' \in DivByZeroQuotients
       ELSE /\ pc' = "partitioned"
            /\ nominalSegmentSize' = points \div effectiveThreads'
  /\ teamSize' = 0
  /\ tpc' = <<>>
  /\ localCentroids' = <<>>
  /\ localCounts' = <<>>
  /\ cNorm' = <<>>
  /\ assignments' = <<>>
  /\ faults' = IF effectiveThreads' = 0 THEN {"division_by_zero"} ELSE {}
  /\ combines' = <<>>
  /\ UNCHANGED <<family, maxThreads, dataset, distanceCalculations, calls,
                 expectedCalculations>>

\* #pragma omp parallel num_threads(effectiveThreads), lines 59-62: the
\* runtime forms a team; each thread zeroes its local accumulators.
ParallelBegin(t) ==
  /\ pc = "partitioned"
  /\ t \in TeamSizes
  /\ teamSize' = t
  /\ pc' = "parallel"
  /\ tpc' = [id \in 0..(t - 1) |-> "accumulate"]
  /\ localCentroids' = [id \in 0..(t - 1) |-> ZeroMat(dims, clusters)]
  /\ localCounts' = [id \in 0..(t - 1) |-> ZeroVec(clusters)]
  /\ combines' = [id \in 0..(t - 1) |-> 0]
  /\ UNCHANGED <<family, maxThreads, dataset, distanceCalculations, centroids,
                 newCentroids, counts, centroidNorms, effectiveThreads,
                 nominalSegmentSize, cNorm, assignments, faults, calls,
                 expectedCalculations>>

\* Lines 64-96: a thread accumulates the points of its segment. A write to
\* column closestCluster = clusters is out of bounds: Armadillo's bounds
\* check throws and the program terminates, or (ARMA_NO_DEBUG) the write
\* lands outside the accumulators.
Accumulate(threadId) ==
  /\ pc = "parallel"
  /\ threadId \in Team
  /\ tpc[threadId] = "accumulate"
  /\ LET acc == AccumulateRange(SegmentStart(threadId), SegmentEnd(threadId),
                                [lc  |-> localCentroids[threadId],
                                 ln  |-> localCounts[threadId],
                                 oob |-> FALSE])
         segment == SegmentStart(threadId)..(SegmentEnd(threadId) - 1)
     IN  /\ localCentroids' = StoreLocal(localCentroids, threadId, acc.lc)
         /\ localCounts' = StoreLocal(localCounts, threadId, acc.ln)
         /\ assignments' = [i \in DOMAIN assignments \cup segment |->
                              IF i \in segment THEN ClosestCluster(i)
                                               ELSE assignments[i]]
         /\ faults' = IF acc.oob THEN faults \cup {"out_of_bounds"} ELSE faults
         /\ IF acc.oob
              THEN \/ /\ pc' = "crashed"
                      /\ UNCHANGED tpc
                   \/ /\ tpc' = [tpc EXCEPT ![threadId] = "waiting"]
                      /\ UNCHANGED pc
              ELSE /\ tpc' = [tpc EXCEPT ![threadId] = "waiting"]
                   /\ UNCHANGED pc
  /\ UNCHANGED <<family, maxThreads, dataset, distanceCalculations, centroids,
                 newCentroids, counts, centroidNorms, effectiveThreads,
                 nominalSegmentSize, teamSize, cNorm, combines, calls,
                 expectedCalculations>>

\* #pragma omp critical, line 99: a thread enters when no thread is inside.
EnterCritical(threadId) ==
  /\ pc = "parallel"
  /\ threadId \in Team
  /\ ReachedCritical(threadId)
  /\ CriticalFree
  /\ tpc' = [tpc EXCEPT ![threadId] = "critical"]
  /\ UNCHANGED <<family, maxThreads, dataset, distanceCalculations, centroids,
                 newCentroids, counts, centroidNorms, effectiveThreads,
                 nominalSegmentSize, teamSize, pc, localCentroids, localCounts,
                 cNorm, assignments, faults, combines, calls,
                 expectedCalculations>>

\* Lines 100-103: newCentroids += localCentroids; counts += localCounts;
\* and the thread leaves the critical section.
Combine(threadId) ==
  /\ pc = "parallel"
  /\ threadId \in Team
  /\ tpc[threadId] = "critical"
  /\ newCentroids' = MergeCentroidsInto(newCentroids, localCentroids[threadId])
  /\ counts' = MergeCountsInto(counts, localCounts[threadId])
  /\ tpc' = [tpc EXCEPT ![threadId] = "done"]
  /\ combines' = [combines EXCEPT ![threadId] = @ + 1]
  /\ UNCHANGED <<family, maxThreads, dataset, distanceCalculations, centroids,
                 centroidNorms, effectiveThreads, nominalSegmentSize, teamSize,
                 pc, localCentroids, localCounts, cNorm, assignments, faults,
                 calls, expectedCalculations>>

\* Lines 104-125: the team joins at the end of the parallel region; the
\* centroids are normalised, the distortion summed, the counter advanced,
\* and Iterate returns.
IterateEnd ==
  /\ pc = "parallel"
  /\ Joined
  /\ newCentroids' = Normalize(newCentroids, counts)
  /\ cNorm' = Distortion(centroids, newCentroids')
  /\ distanceCalculations' = distanceCalculations + Calculations(clusters, points)
  /\ pc' = "returned"
  /\ calls' = calls + 1
  /\ expectedCalculations' =
       expectedCalculations + NCols(centroids) * dataset.n_cols
  /\ UNCHANGED <<family, maxThreads, dataset, centroids, counts, centroidNorms,
                 effectiveThreads, nominalSegmentSize, teamSize, tpc,
                 localCentroids, localCounts, assignments, faults, combines>>

Next ==
  \/ \E c \in CentroidChoices(family.cols) : IterateBegin(c)
  \/ \E t \in 1..MaxThreads : ParallelBegin(t)
  \/ \E threadId \in 0..(MaxThreads - 1) : Accumulate(threadId)
  \/ \E threadId \in 0..(MaxThreads - 1) : EnterCritical(threadId)
  \/ \E threadId \in 0..(MaxThreads - 1) : Combine(threadId)
  \/ IterateEnd

Spec == Init /\ [][Next]_vars

\* ---------------------------------------------------------------- reference
\* What the claims compare the program with. None of this is computed the way
\* Iterate computes it.

\* ||x - c||^2, term by term.
SquaredDistance(x, c) ==
  SumTo([r \in 1..Len(x) |-> (x[r] - c[r]) * (x[r] - c[r])], Len(x))

\* Centroid j is at minimal squared distance from point i.
IsNearest(i, j) ==
  \A k \in DOMAIN centroids :
    SquaredDistance(dataset.col[i], centroids[j])
      <= SquaredDistance(dataset.col[i], centroids[k])

\* The lowest-indexed centroid at minimal squared distance from point i.
LowestNearest(i) ==
  CHOOSE j \in DOMAIN centroids :
    IsNearest(i, j) /\ \A k \in 0..(j - 1) : ~IsNearest(i, k)

\* The assignment of a pass over all the points.
FullAssignment == [i \in 0..(points - 1) |-> LowestNearest(i)]

RECURSIVE PointSum(_, _, _, _)
\* The sum of the points lo..hi-1 that asg sends to cluster j.
PointSum(lo, hi, j, asg) ==
  IF lo >= hi
    THEN [r \in 1..dims |-> 0]
    ELSE IF hi = lo + 1
      THEN IF lo \in DOMAIN asg /\ asg[lo] = j
             THEN dataset.col[lo]
             ELSE [r \in 1..dims |-> 0]
      ELSE LET mid == lo + ((hi - lo) \div 2)
           IN  VecAdd(PointSum(lo, mid, j, asg), PointSum(mid, hi, j, asg))

\* The number of points asg sends to cluster j.
PointCount(j, asg) == Cardinality({ i \in DOMAIN asg : asg[i] = j })

\* The mean of the points asg sends to cluster j; the zero vector if none.
PointMean(j, asg) ==
  LET total == PointSum(0, points, j, asg)
      n     == PointCount(j, asg)
  IN  [r \in 1..dims |-> IF n > 0 THEN Frac(total[r], n) ELSE <<0, 1>>]

RECURSIVE SumCounts(_, _)
\* cnt[0] + ... + cnt[n - 1]
SumCounts(cnt, n) == IF n = 0 THEN 0 ELSE SumCounts(cnt, n - 1) + cnt[n - 1]

\* Iterate has computed its partition in the current call.
Partitioned == pc \in {"partitioned", "parallel", "returned", "crashed"}

\* ------------------------------------------------------------------- claims

\* C1: for every point count and every thread maximum, the effective thread
\* count Iterate computes is at least 1, so points / effectiveThreads is
\* never a division by zero.
C1_EffectiveThreadsAtLeastOne ==
  Partitioned => effectiveThreads >= 1 /\ "division_by_zero" \notin faults

\* C2: with points > 0 and clusters > 0, when Iterate returns the counts sum
\* to the number of points.
C2_CountsSumToPoints ==
  (pc = "returned" /\ points > 0 /\ clusters > 0)
    => SumCounts(counts, clusters) = points

\* C3: with clusters > 0, the cluster Iterate assigns to a point is a column
\* index of the centroids (never the initial value clusters) and no centroid
\* is nearer to the point in squared Euclidean distance.
C3_AssignedIsNearest ==
  clusters > 0 =>
    \A i \in DOMAIN assignments :
      /\ assignments[i] \in 0..(clusters - 1)
      /\ IsNearest(i, assignments[i])

\* C3 happens: a call over at least one full segment with two centroids
\* returned, it assigned every point, and both clusters got points.
C3_Witness ==
  /\ pc = "returned"
  /\ clusters = 2
  /\ points >= minVectorsPerThread
  /\ DOMAIN assignments = 0..(points - 1)
  /\ \E i, k \in DOMAIN assignments : assignments[i] = 0 /\ assignments[k] = 1

\* C4: a point at the same minimal distance from several centroids is
\* assigned to the lowest-indexed of them, whichever thread processes it and
\* however many threads there are.
C4_TieGoesToLowestIndex ==
  clusters > 0 =>
    \A i \in DOMAIN assignments :
      \A j \in 0..(clusters - 1) :
        (j # assignments[i] /\ IsNearest(i, j)) => assignments[i] < j

\* C4 happens: a team of two returned, and a point of the second thread's
\* segment is as near to centroid 1 as to centroid 0, which differ.
C4_Witness ==
  /\ pc = "returned"
  /\ teamSize = 2
  /\ clusters = 2
  /\ centroids[0] # centroids[1]
  /\ \E i \in DOMAIN assignments :
       /\ i >= nominalSegmentSize
       /\ IsNearest(i, 0)
       /\ IsNearest(i, 1)
       /\ assignments[i] = 0

\* The outputs of a pass of one thread over all the points.
FullPassCounts == [j \in DOMAIN centroids |-> PointCount(j, FullAssignment)]

FullPassCentroids == [j \in DOMAIN centroids |-> PointMean(j, FullAssignment)]

\* C5: for the same dataset and centroids, the newCentroids and counts of a
\* call with more than one thread are those of a call with one thread, in
\* whatever order the threads merge.
C5_ThreadCountInvariance ==
  (pc = "returned" /\ effectiveThreads > 1)
    => counts = FullPassCounts /\ newCentroids = FullPassCentroids

\* C6: a call with no centroid or no point is a safe no-op: it returns, with
\* all-zero outputs, after no division by zero and no access to a column that
\* does not exist.
C6_EmptyInputIsNoOp ==
  (Partitioned /\ (points = 0 \/ clusters = 0))
    => /\ pc # "crashed"
       /\ faults = {}
       /\ pc = "returned" =>
            /\ \A j \in DOMAIN counts : counts[j] = 0
            /\ newCentroids = ZeroFracMat(dims, clusters)

\* The dataset and centroids of the scenario {(0,0),(0,1),(5,5),(5,6)} with
\* centroids {(0,0),(5,5)}.
IsScenario ==
  /\ dataset.col = (0 :> <<0, 0>> @@ 1 :> <<0, 1>> @@ 2 :> <<5, 5>> @@ 3 :> <<5, 6>>)
  /\ centroids = (0 :> <<0, 0>> @@ 1 :> <<5, 5>>)

\* C7: with fewer points than one segment (and at least one) and clusters > 0
\* Iterate does not crash and returns the outputs of a one-thread pass over
\* all the points; on the scenario: assignments {0,0,1,1}, counts [2,2],
\* newCentroids {(0,1/2),(5,11/2)}, shift sqrt(1/4) + sqrt(1/4) = 1.
C7_SmallDataset ==
  (Partitioned /\ 0 < points /\ points < minVectorsPerThread /\ clusters > 0)
    => /\ pc # "crashed"
       /\ faults = {}
       /\ pc = "returned" =>
            /\ assignments = FullAssignment
            /\ counts = FullPassCounts
            /\ newCentroids = FullPassCentroids
            /\ IsScenario =>
                 /\ assignments = (0 :> 0 @@ 1 :> 0 @@ 2 :> 1 @@ 3 :> 1)
                 /\ counts = (0 :> 2 @@ 1 :> 2)
                 /\ newCentroids = (0 :> << <<0, 1>>, <<1, 2>> >>
                                    @@ 1 :> << <<5, 1>>, <<11, 2>> >>)
                 /\ cNorm = (0 :> <<1, 4>> @@ 1 :> <<1, 4>>)

\* C8: when Iterate returns, counts[j] is the number of points assigned to
\* cluster j, and column j of newCentroids is their sum divided by counts[j]
\* when counts[j] > 0 and the zero vector when counts[j] = 0.
C8_NewCentroidsAreMeans ==
  pc = "returned" =>
    \A j \in DOMAIN newCentroids :
      /\ counts[j] = PointCount(j, assignments)
      /\ newCentroids[j] =
           IF counts[j] > 0
             THEN [r \in 1..dims |->
                     Frac(PointSum(0, points, j, assignments)[r], counts[j])]
             ELSE [r \in 1..dims |-> <<0, 1>>]

\* C8 happens: a team of two returned with one cluster holding points, whose
\* mean is not a whole number, and one cluster empty.
C8_Witness ==
  /\ pc = "returned"
  /\ teamSize = 2
  /\ clusters = 2
  /\ counts[0] = points
  /\ counts[1] = 0
  /\ \E r \in 1..dims : newCentroids[0][r][2] > 1

\* Every centroid is the mean of the points nearest to it, and has some.
FixedPointInput ==
  /\ clusters > 0
  /\ \A j \in DOMAIN centroids :
       /\ PointCount(j, FullAssignment) > 0
       /\ ToFrac(centroids[j]) = PointMean(j, FullAssignment)

\* C9: if every input centroid is the mean of the points nearest to it,
\* Iterate returns newCentroids equal to the centroids and a shift of 0, and
\* its counts are those of every call with these centroids.
C9_FixedPoint ==
  (pc = "returned" /\ FixedPointInput)
    => /\ newCentroids = [j \in DOMAIN centroids |-> ToFrac(centroids[j])]
       /\ \A j \in DOMAIN cNorm : cNorm[j] = <<0, 1>>
       /\ counts = FullPassCounts

\* C10: distanceCalculations is 0 at construction and, after any sequence of
\* calls, the sum of clusters * points over the calls that returned; nothing
\* but the return of a call changes it.
C10_CounterIsSumOverCalls ==
  /\ distanceCalculations = expectedCalculations
  /\ calls = 0 => distanceCalculations = 0

\* C10 happens: two calls over at least one full segment returned, one with
\* one centroid and one with two.
C10_Witness ==
  /\ calls = 2
  /\ pc = "returned"
  /\ points >= minVectorsPerThread
  /\ distanceCalculations = 3 * points

\* ------------------------------------------------- reference, second part

\* The point indices [segmentStart, segmentEnd) of a thread id.
SegmentOf(id) == SegmentStart(id)..(SegmentEnd(id) - 1)

\* The points the segments of the running team cover.
Processed == UNION { SegmentOf(id) : id \in Team }

\* Each covered point with the lowest-indexed nearest centroid.
ProcessedAssignment == [i \in Processed |-> LowestNearest(i)]

RECURSIVE DoneCount(_, _)
\* Entry j of the localCounts of the threads below n that have combined.
DoneCount(j, n) ==
  IF n = 0
    THEN 0
    ELSE DoneCount(j, n - 1)
           + (IF tpc[n - 1] = "done" THEN localCounts[n - 1][j] ELSE 0)

RECURSIVE DoneEntry(_, _, _)
\* Entry (r, j) of the localCentroids of the threads below n that have
\* combined.
DoneEntry(j, r, n) ==
  IF n = 0
    THEN 0
    ELSE DoneEntry(j, r, n - 1)
           + (IF tpc[n - 1] = "done" THEN localCentroids[n - 1][j][r] ELSE 0)

\* ------------------------------------------------------------ claims, C11-

\* C11: what Iterate returns in newCentroids, counts and the shift is fixed
\* by the dataset, the input centroids and the segments that ran; nothing of
\* the size or contents the caller's newCentroids and counts had before the
\* call is left in them.
C11_OutputsIgnorePriorBuffers ==
  pc = "returned" =>
    /\ DOMAIN newCentroids = DOMAIN centroids
    /\ DOMAIN counts = DOMAIN centroids
    /\ clusters > 0 =>
         LET asg == ProcessedAssignment
         IN  /\ asg = asg    \* tabulates the function once
             /\ \A j \in DOMAIN centroids :
                  LET mean == PointMean(j, asg)
                  IN  /\ counts[j] = PointCount(j, asg)
                      /\ newCentroids[j] = mean
                      /\ cNorm[j] = Norm2Squared(centroids[j], mean)

\* C11 happens: a call with one centroid returned into the buffers an
\* earlier call with two centroids had filled.
C11_Witness ==
  /\ pc = "returned"
  /\ calls = 2
  /\ clusters = 1
  /\ points >= minVectorsPerThread
  /\ distanceCalculations = 3 * points
  /\ counts[0] > 0

\* C12: every call of Iterate runs to completion: a call that has begun and
\* not yet returned has not aborted, and a step of a thread or of the caller
\* toward the return is possible.
C12_EveryCallCompletes ==
  (pc # "idle" /\ pc # "returned") => (pc # "crashed" /\ ENABLED Next)

\* C13: with an effective thread count T >= 1, the segments of the thread
\* ids 0..T-1 start at 0, follow one another without gap or overlap and end
\* at points; the ids below T-1 get points div T points each and id T-1 gets
\* points div T + points mod T, so every point is in exactly one segment.
C13_SegmentsPartitionPoints ==
  (pc = "partitioned" /\ effectiveThreads >= 1) =>
    LET T == effectiveThreads
    IN  /\ SegmentStart(0) = 0
        /\ SegmentEnd(T - 1) = points
        /\ \A id \in 0..(T - 2) :
             /\ SegmentEnd(id) = SegmentStart(id + 1)
             /\ SegmentEnd(id) - SegmentStart(id) = points \div T
        /\ SegmentEnd(T - 1) - SegmentStart(T - 1)
             = (points \div T) + (points % T)
        /\ \A i \in 0..(points - 1) :
             Cardinality({ id \in 0..(T - 1) : i \in SegmentOf(id) }) = 1

\* C13 happens: a partition for several threads whose number does not
\* divide the number of points.
C13_Witness ==
  /\ pc = "partitioned"
  /\ effectiveThreads >= 2
  /\ points % effectiveThreads > 0

\* C14: at most one thread is inside the combine step at a time, a thread
\* has run the combine step once when it is through and not at all before,
\* and when Iterate returns every thread of the team has run it once.
C14_CombineIsExclusiveAndOnce ==
  /\ Cardinality({ id \in Team : tpc[id] = "critical" }) <= 1
  /\ \A id \in Team : combines[id] = (IF tpc[id] = "done" THEN 1 ELSE 0)
  /\ pc = "returned" => \A id \in Team : combines[id] = 1

\* C14 happens: one thread is inside the combine step while another has
\* finished its segment and stands before it.
C14_Witness ==
  /\ pc = "parallel"
  /\ points >= minVectorsPerThread
  /\ clusters > 0
  /\ \E id, other \in Team : tpc[id] = "critical" /\ tpc[other] = "waiting"

\* C15: the normalisation starts only after every thread of the team has
\* completed its combine step: when Iterate has normalised and returned, no
\* thread is still accumulating, waiting or combining.
C15_NormaliseAfterAllMerges ==
  pc = "returned" => \A id \in Team : tpc[id] = "done"

\* C15 happens: a team of two over two full segments returned normalised
\* centroids.
C15_Witness ==
  /\ pc = "returned"
  /\ teamSize = 2
  /\ clusters > 0
  /\ \A id \in Team : SegmentOf(id) # {} /\ tpc[id] = "done"
  /\ \E j \in DOMAIN counts : counts[j] > 1

C17_ParallelRegionFrame ==
  [][pc = "parallel" =>
       /\ dataset' = dataset
       /\ centroids' = centroids
       /\ centroidNorms' = centroidNorms
       /\ pc' = "parallel" =>
            /\ (newCentroids' # newCentroids \/ counts' # counts)
                 => \E id \in Team : tpc[id] = "critical" /\ tpc'[id] = "done"
            /\ \A id \in Team :
                 (localCentroids'[id] # localCentroids[id]
                    \/ localCounts'[id] # localCounts[id])
                   => (tpc[id] = "accumulate" /\ tpc'[id] = "waiting")]_vars

\* C17 happens: one thread has merged a non-empty accumulator into the
\* shared arrays while another is still accumulating into its own.
C17_Witness ==
  /\ pc = "parallel"
  /\ teamSize = 2
  /\ \E id, other \in Team : tpc[id] = "done" /\ tpc[other] = "accumulate"
  /\ \E j \in DOMAIN counts : counts[j] > 0

\* C18: whatever team size from 1 to effectiveThreads the runtime grants,
\* in a call free of undefined operations every point index below points is
\* in the segment of exactly one running thread, and with clusters > 0 the
\* counts Iterate returns sum to points.
C18_SmallerTeamCoversAllPoints ==
  (pc = "returned" /\ faults = {}
     /\ effectiveThreads >= 1 /\ teamSize <= effectiveThreads)
    => /\ \A i \in 0..(points - 1) :
            Cardinality({ id \in Team : i \in SegmentOf(id) }) = 1
       /\ clusters > 0 => SumCounts(counts, clusters) = points

\* C19: throughout the merge phase counts is the element-wise sum of the
\* localCounts, and newCentroids the sum of the localCentroids, of exactly
\* the threads that have completed their combine step; and the localCounts
\* of a thread entering the combine step sum to the size of its segment.
C19_MergePhaseAccounting ==
  pc = "parallel" =>
    /\ counts = [j \in DOMAIN counts |-> DoneCount(j, teamSize)]
    /\ newCentroids =
         [j \in DOMAIN newCentroids |->
            [r \in 1..dims |-> <<DoneEntry(j, r, teamSize), 1>>]]
    /\ \A id \in Team :
         tpc[id] = "critical"
           => SumCounts(localCounts[id], NCols(localCounts[id]))
                = SegmentEnd(id) - SegmentStart(id)

====
